---- MODULE Spec2Model ----
(***************************************************************************)
(* A model of the two view components of the worknow front end:            *)
(*   - JobForm (the job-posting form: validation, submission, feedback),   *)
(*   - PremiumButton (the premium panel: status fetch, checkout).          *)
(*                                                                         *)
(* Strings are modelled by what the code reads of them.  A form field's    *)
(* text is a record [len, digits]: its length and whether every character *)
(* is a decimal digit, which is all that the zod schema looks at.  A       *)
(* server message or a notification text is a sequence of tokens; the      *)
(* literals the code searches for are single tokens, digits are one token  *)
(* per character.  Russian literals are written in ASCII transliteration.  *)
(***************************************************************************)
EXTENDS Integers, Sequences, FiniteSets, TLC

VARIABLES
    \* ---- JobForm ----
    values,        \* react-hook-form field values (the draft)
    errors,        \* formState.errors: violated field -> message of its first issue
    user,          \* useUser().user as seen by JobForm: a user id or NoUser
    onJobCreated,  \* whether the caller passed the onJobCreated prop
    inflight,      \* POST /api/jobs requests issued and not yet answered
    timers,        \* pending setTimeout callbacks armed by onSubmit
    events,        \* per submission, in order: what JobForm did for it that is observable
    submits,       \* number of times the user submitted the form
    \* ---- catch block of onSubmit, applied to one failure ----
    cError,        \* the error object axios rejected with
    cToasts,       \* the notifications the catch block showed for it
    cThrew,        \* whether an exception escaped the catch block
    cDone,         \* whether the catch block has run
    \* ---- PremiumButton ----
    pMounted,      \* the component has mounted (its effect has run once)
    pUser,         \* useUser().user as seen by PremiumButton
    isPremium,     \* the isPremium state
    fetches,       \* GET /api/user/:id requests in flight
    checkouts,     \* POST create-checkout-session requests in flight
    location,      \* window.location.href: AppPage or the URL redirected to
    pToasts,       \* the notifications PremiumButton showed, in order
    clicks,        \* number of times the purchase button was clicked
    fetched,       \* per user: the latest successful fetch issued for that user
    nextFetch      \* issue number of the next status fetch

jobVars     == <<values, errors, user, onJobCreated, inflight, timers, events, submits>>
catchVars   == <<cError, cToasts, cThrew, cDone>>
premiumVars == <<pMounted, pUser, isPremium, fetches, checkouts, location, pToasts,
                 clicks, fetched, nextFetch>>
vars        == <<jobVars, catchVars, premiumVars>>

(***************************************************************************)
(* Bounds of the model.                                                    *)
(***************************************************************************)
MaxSubmits  == 2      \* form submissions in one behaviour
MaxChunks   == 3      \* pieces a server message is assembled from
MaxErrors   == 2      \* length of a server-side list of field errors
MaxFetches  == 3      \* premium-status fetches in one behaviour
MaxClicks   == 2      \* activations of the purchase action in one behaviour
TickMs      == 1000   \* granularity of the passage of time

NoUser    == "NoUser"
Users     == {"u1", "u2"}

\* JavaScript values that are not text: undefined, a number, a plain object.
Undefined == [t |-> "undefined"]
Num(n)    == [t |-> "number", v |-> n]
Object    == [t |-> "object"]

(***************************************************************************)
(* jobSchema                                                               *)
(***************************************************************************)
TitleMin == 3
TitleMax == 100
PhoneMin == 7
DescMin  == 10
DescMax  == 2000

Fields == {"title", "salary", "cityId", "phone", "description"}

Str(n, d) == [len |-> n, digits |-> d]
EmptyStr  == Str(0, TRUE)

\* /^\d+$/.test(s)
DigitsOnly(s) == s.len >= 1 /\ s.digits

\* The issues zod raises for one field, in the order of its checks.
Issues(f, v) ==
    CASE f = "title" ->
           IF v.len < TitleMin THEN <<"Minimum 3 simvola">>
           ELSE IF v.len > TitleMax THEN <<"Maksimum 100 simvolov">>
           ELSE <<>>
      [] f = "salary" ->
           IF DigitsOnly(v) THEN <<>> ELSE <<"Mozhno vvodit tolko tsifry">>
      [] f = "cityId" ->
           IF v.t # "number" THEN <<"Vyberite gorod">> ELSE <<>>
      [] f = "phone" ->
           (IF DigitsOnly(v) THEN <<>> ELSE <<"Mozhno vvodit tolko tsifry">>)
           \o (IF v.len < PhoneMin THEN <<"Minimum 7 tsifr">> ELSE <<>>)
      [] f = "description" ->
           IF v.len < DescMin THEN <<"Minimum 10 simvolov">>
           ELSE IF v.len > DescMax THEN <<"Maksimum 2000 simvolov">>
           ELSE <<>>

\* zodResolver(jobSchema): the fields with an issue, each with its first message.
Resolve(vals) ==
    LET bad == {f \in Fields : Issues(f, vals[f]) # <<>>}
    IN  [f \in bad |-> Issues(f, vals[f])[1]]

defaultValues ==
    [title |-> EmptyStr, salary |-> EmptyStr, cityId |-> Undefined,
     phone |-> EmptyStr, description |-> EmptyStr]

\* The fields whose error message the form renders under the input.
RenderedErrorFields == {"title", "salary", "cityId", "phone"}

\* The inline messages on screen: field -> text.
InlineMessages ==
    [f \in (DOMAIN errors) \cap RenderedErrorFields |-> errors[f]]


(***************************************************************************)
(* Server messages and notification texts: sequences of tokens.            *)
(***************************************************************************)
RateLimitMarker == "Vy smozhete opublikovat novoe obyavlenie"
QuotaMarker     == "Vy uzhe razmestili 10 obyavlenii"
Digits          == {"0", "1", "3", "5", "7"}

Text(s)  == [t |-> "string", v |-> s]

AuthRequiredMsg == <<"Vy dolzhny byt avtorizovany!">>
SuccessMsg      == <<"Obyavlenie uspeshno sozdano!">>
QuotaMsg        == <<"Dostignut limit v 10 vakansii. Udalite odno iz nikh, prezhde chem sozdat novoe.">>
GenericMsg      == <<"Oshibka pri sozdanii obyavleniya. Poprobuite pozzhe.">>
\* WaitMsg with the seconds left out of the template.
WaitMsgWithoutSeconds(m, s) ==
    <<"Podozhdite", " ">> \o m \o <<" ", "min", " ", "sek pered sozdaniem novogo obyavleniya.">>

WaitMsg(m, s)   == <<"Podozhdite", " ">> \o m \o <<" ", "min", " ">> \o s
                   \o <<" ", "sek pered sozdaniem novogo obyavleniya.">>

\* String.prototype.includes: sub occurs in s as a contiguous run.
Includes(s, sub) ==
    \E i \in 0..(Len(s) - Len(sub)) :
        \A k \in 1..Len(sub) : s[i + k] = sub[k]

\* The last index of the run of digits of s that starts at i (i - 1 when s[i] is no digit).
RunEnd(s, i) ==
    LET ends == {j \in (i - 1)..Len(s) : \A k \in i..j : s[k] \in Digits}
    IN  CHOOSE j \in ends : \A k \in ends : k <= j

\* /cherez (\d+)m (\d+)s/ matches s starting at index i.
MatchesAt(s, i) ==
    LET a == i + 2
        b == RunEnd(s, a)
        c == b + 3
        d == RunEnd(s, c)
    IN  /\ i + 1 <= Len(s)
        /\ s[i] = "cherez" /\ s[i + 1] = " "
        /\ b >= a
        /\ b + 2 <= Len(s)
        /\ s[b + 1] = "m" /\ s[b + 2] = " "
        /\ d >= c
        /\ d + 1 <= Len(s)
        /\ s[d + 1] = "s"

\* errorMessage.match(/cherez (\d+)m (\d+)s/): the leftmost match and its two groups.
Match(s) ==
    LET starts == {i \in 1..Len(s) : MatchesAt(s, i)}
    IN  IF starts = {} THEN [found |-> FALSE, minutes |-> <<>>, seconds |-> <<>>]
        ELSE LET i == CHOOSE x \in starts : \A y \in starts : x <= y
                 b == RunEnd(s, i + 2)
                 d == RunEnd(s, b + 3)
             IN  [found   |-> TRUE,
                  minutes |-> SubSeq(s, i + 2, b),
                  seconds |-> SubSeq(s, b + 3, d)]

\* JavaScript truthiness of a value of the response body.
Truthy(x) ==
    CASE x.t = "undefined" -> FALSE
      [] x.t = "string"    -> Len(x.v) > 0
      [] OTHER             -> TRUE

\* `${err}`: a string as it is, a plain object as "[object Object]".
Template(x) ==
    CASE x.t = "string"    -> x.v
      [] x.t = "undefined" -> <<"undefined">>
      [] OTHER             -> <<"[object Object]">>

\* ErrorStringToast with the quota branch left out.
ErrorStringToastWithoutQuota(errorMessage) ==
    IF Includes(errorMessage, <<RateLimitMarker>>)
    THEN LET match == Match(errorMessage)
         IN  IF match.found THEN WaitMsg(match.minutes, match.seconds)
             ELSE errorMessage
    ELSE errorMessage

\* The notification shown for a truthy error string of the response body.
ErrorStringToast(errorMessage) ==
    IF Includes(errorMessage, <<RateLimitMarker>>)
    THEN LET match == Match(errorMessage)
         IN  IF match.found THEN WaitMsg(match.minutes, match.seconds)
             ELSE errorMessage
    ELSE IF Includes(errorMessage, <<QuotaMarker>>) THEN QuotaMsg
    ELSE errorMessage

\* The catch block of onSubmit: the notifications it shows for the rejection
\* `error`, in order, and whether a TypeError escapes it.
Catch(error) ==
    IF error.response.t # "undefined" /\ Truthy(error.response.data)
    THEN LET data == error.response.data.v
         IN  IF Truthy(data.error)
             THEN IF data.error.t = "string"
                  THEN [toasts |-> <<ErrorStringToast(data.error.v)>>, threw |-> FALSE]
                  ELSE [toasts |-> <<>>, threw |-> TRUE]      \* .includes is not a function
             ELSE IF Truthy(data.errors)
             THEN IF data.errors.t = "array"
                  THEN [toasts |-> [i \in 1..Len(data.errors.v) |-> Template(data.errors.v[i])],
                        threw  |-> FALSE]
                  ELSE [toasts |-> <<>>, threw |-> TRUE]      \* .forEach is not a function
             ELSE [toasts |-> <<GenericMsg>>, threw |-> FALSE]
    ELSE [toasts |-> <<GenericMsg>>, threw |-> FALSE]

\* Rejections of axios.post.
NoResponse       == [response |-> Undefined]
EmptyBody        == [response |-> [t |-> "response", data |-> Undefined]]
Body(err, errs)  == [response |-> [t |-> "response",
                                   data |-> [t |-> "object", v |-> [error |-> err, errors |-> errs]]]]
Array(s)         == [t |-> "array", v |-> s]

(***************************************************************************)
(* JobForm                                                                 *)
(***************************************************************************)
NavDelay == 2000     \* setTimeout(..., 2000)

Event(e, a) == [ev |-> e, arg |-> a]

\* parseInt of a number: the decimal digits of its text, read back.  City ids
\* are the integer ids of the fetched list, which parseInt leaves as they are.
ParseInt(x) == IF x.t = "number" THEN x.v ELSE -1

\* The body of POST /api/jobs.
JobBody(data, u) ==
    [title |-> data.title, salary |-> data.salary, cityId |-> ParseInt(data.cityId),
     phone |-> data.phone, description |-> data.description, userId |-> u]

\* response.data of a successful POST /api/jobs: the created record.
Created(r) == [job |-> r.id, body |-> r.body]

\* The user fills in the form: the inputs' change handlers and setValue('cityId').
Fill(d) ==
    /\ values # d
    /\ values' = d
    /\ UNCHANGED <<errors, user, onJobCreated, inflight, timers, events, submits>>
    /\ UNCHANGED <<catchVars, premiumVars>>

\* useUser() hands the component another user (sign-in, sign-out, switch).
SetUser(u) ==
    /\ u # user
    /\ user' = u
    /\ UNCHANGED <<values, errors, onJobCreated, inflight, timers, events, submits>>
    /\ UNCHANGED <<catchVars, premiumVars>>

\* Submit with onSubmit's check of the user left out.
SubmitWithoutUserCheck ==
    /\ submits < MaxSubmits
    /\ submits' = submits + 1
    /\ LET errs == Resolve(values)
           id   == submits + 1
       IN  IF DOMAIN errs # {}
           THEN /\ errors' = errs
                /\ events' = Append(events, <<>>)
                /\ UNCHANGED inflight
           ELSE /\ errors' = <<>>
                /\ LET body == JobBody(values, user)
                   IN  /\ inflight' = inflight \cup {[id |-> id, body |-> body]}
                       /\ events' = Append(events, <<Event("post", body)>>)
    /\ UNCHANGED <<values, user, onJobCreated, timers>>
    /\ UNCHANGED <<catchVars, premiumVars>>

\* The form's submit event: handleSubmit validates, then calls onSubmit, which
\* runs up to its await.
Submit ==
    /\ submits < MaxSubmits
    /\ submits' = submits + 1
    /\ LET errs == Resolve(values)
           id   == submits + 1
       IN  IF DOMAIN errs # {}
           THEN /\ errors' = errs
                /\ events' = Append(events, <<>>)
                /\ UNCHANGED inflight
           ELSE /\ errors' = <<>>
                /\ IF user = NoUser
                   THEN /\ events' = Append(events, <<Event("toast.error", AuthRequiredMsg)>>)
                        /\ UNCHANGED inflight
                   ELSE LET body == JobBody(values, user)
                        IN  /\ inflight' = inflight \cup {[id |-> id, body |-> body]}
                            /\ events' = Append(events, <<Event("post", body)>>)
    /\ UNCHANGED <<values, user, onJobCreated, timers>>
    /\ UNCHANGED <<catchVars, premiumVars>>

\* RespondOK with the call of reset() left out.
RespondOKWithoutReset(r) ==
    /\ r \in inflight
    /\ inflight' = inflight \ {r}
    /\ timers' = timers \cup {[req |-> r.id, remaining |-> NavDelay]}
    /\ events' = [events EXCEPT ![r.id] = @
                     \o <<Event("toast.success", SuccessMsg)>>
                     \o (IF onJobCreated THEN <<Event("callback", Created(r))>> ELSE <<>>)
                     \o <<Event("setTimeout", NavDelay)>>]
    /\ UNCHANGED <<values, errors, user, onJobCreated, submits>>
    /\ UNCHANGED <<catchVars, premiumVars>>

\* The POST of request r succeeded: onSubmit resumes after its await.
\* toast.success, reset and the caller's onJobCreated are taken to return normally.
RespondOK(r) ==
    /\ r \in inflight
    /\ inflight' = inflight \ {r}
    /\ values' = defaultValues
    /\ errors' = <<>>
    /\ timers' = timers \cup {[req |-> r.id, remaining |-> NavDelay]}
    /\ events' = [events EXCEPT ![r.id] = @
                     \o <<Event("toast.success", SuccessMsg), Event("reset", <<>>)>>
                     \o (IF onJobCreated THEN <<Event("callback", Created(r))>> ELSE <<>>)
                     \o <<Event("setTimeout", NavDelay)>>]
    /\ UNCHANGED <<user, onJobCreated, submits>>
    /\ UNCHANGED <<catchVars, premiumVars>>

\* The POST of request r was rejected with `error`: the catch block runs.
RespondFail(r, error) ==
    /\ r \in inflight
    /\ inflight' = inflight \ {r}
    /\ LET c == Catch(error)
       IN  events' = [events EXCEPT ![r.id] = @
                         \o [i \in 1..Len(c.toasts) |-> Event("toast.error", c.toasts[i])]
                         \o (IF c.threw THEN <<Event("throw", <<>>)>> ELSE <<>>)]
    /\ UNCHANGED <<values, errors, user, onJobCreated, timers, submits>>
    /\ UNCHANGED <<catchVars, premiumVars>>

Max(a, b) == IF a >= b THEN a ELSE b

\* Time passes.
Tick ==
    /\ \E t \in timers : t.remaining > 0
    /\ timers' = {[t EXCEPT !.remaining = Max(0, @ - TickMs)] : t \in timers}
    /\ UNCHANGED <<values, errors, user, onJobCreated, inflight, events, submits>>
    /\ UNCHANGED <<catchVars, premiumVars>>

\* A timer armed by onSubmit is due: navigate('/').
TimerFire(t) ==
    /\ t \in timers
    /\ t.remaining = 0
    /\ timers' = timers \ {t}
    /\ events' = [events EXCEPT ![t.req] = Append(@, Event("navigate", <<"/">>))]
    /\ UNCHANGED <<values, errors, user, onJobCreated, inflight, submits>>
    /\ UNCHANGED <<catchVars, premiumVars>>

(***************************************************************************)
(* PremiumButton                                                           *)
(***************************************************************************)
AppPage      == "app"
CheckoutUrls == {"https://checkout/1", "https://checkout/2"}
PaymentError == <<"payment_error">>

\* The render: the label or the button at the bottom of the sheet.
ShowsPurchased      == isPremium
ShowsPurchaseAction == ~isPremium

NeverFetched == [id |-> 0, val |-> FALSE]

\* useEffect(fetchUserPremiumStatus, [user]) running for user u, up to its await.
RunEffect(u) ==
    IF u = NoUser
    THEN UNCHANGED <<fetches, nextFetch>>
    ELSE /\ fetches' = fetches \cup {[id |-> nextFetch, user |-> u]}
         /\ nextFetch' = nextFetch + 1

\* The first render: the effect runs once.
Mount ==
    /\ ~pMounted
    /\ pMounted' = TRUE
    /\ RunEffect(pUser)
    /\ UNCHANGED <<pUser, isPremium, checkouts, location, pToasts, clicks, fetched>>
    /\ UNCHANGED <<jobVars, catchVars>>

\* useUser() hands the component another user: re-render, the effect runs again.
UserChange(u) ==
    /\ pMounted /\ location = AppPage
    /\ u # pUser
    /\ nextFetch <= MaxFetches
    /\ pUser' = u
    /\ RunEffect(u)
    /\ UNCHANGED <<pMounted, isPremium, checkouts, location, pToasts, clicks, fetched>>
    /\ UNCHANGED <<jobVars, catchVars>>

\* FetchOK with the response's flag left out of the state.
FetchOKWithoutSetIsPremium(f, b) ==
    /\ location = AppPage
    /\ f \in fetches
    /\ fetches' = fetches \ {f}
    /\ fetched' = [fetched EXCEPT ![f.user] =
                      IF f.id > @.id THEN [id |-> f.id, val |-> b] ELSE @]
    /\ UNCHANGED <<pMounted, pUser, isPremium, checkouts, location, pToasts, clicks, nextFetch>>
    /\ UNCHANGED <<jobVars, catchVars>>

\* The status fetch f is answered with {isPremium: b}.
FetchOK(f, b) ==
    /\ location = AppPage
    /\ f \in fetches
    /\ fetches' = fetches \ {f}
    /\ isPremium' = b
    /\ fetched' = [fetched EXCEPT ![f.user] =
                      IF f.id > @.id THEN [id |-> f.id, val |-> b] ELSE @]
    /\ UNCHANGED <<pMounted, pUser, checkouts, location, pToasts, clicks, nextFetch>>
    /\ UNCHANGED <<jobVars, catchVars>>

\* The status fetch f fails: console.error only.
FetchFail(f) ==
    /\ location = AppPage
    /\ f \in fetches
    /\ fetches' = fetches \ {f}
    /\ UNCHANGED <<pMounted, pUser, isPremium, checkouts, location, pToasts, clicks,
                   fetched, nextFetch>>
    /\ UNCHANGED <<jobVars, catchVars>>

\* Checkout returning early, without a notification, when no user is signed in.
CheckoutSilentWithoutUser ==
    /\ pMounted /\ location = AppPage
    /\ ShowsPurchaseAction
    /\ clicks < MaxClicks
    /\ clicks' = clicks + 1
    /\ IF pUser = NoUser
       THEN UNCHANGED <<checkouts, pToasts>>
       ELSE /\ checkouts' = checkouts \cup {[id |-> clicks + 1, clerkUserId |-> pUser]}
            /\ UNCHANGED pToasts
    /\ UNCHANGED <<pMounted, pUser, isPremium, fetches, location, fetched, nextFetch>>
    /\ UNCHANGED <<jobVars, catchVars>>

\* The purchase button is clicked: handleCheckout runs up to its await, or, with
\* no user, to the TypeError of user.id, which its catch turns into a toast.
Checkout ==
    /\ pMounted /\ location = AppPage
    /\ ShowsPurchaseAction
    /\ clicks < MaxClicks
    /\ clicks' = clicks + 1
    /\ IF pUser = NoUser
       THEN /\ pToasts' = Append(pToasts, PaymentError)
            /\ UNCHANGED checkouts
       ELSE /\ checkouts' = checkouts \cup {[id |-> clicks + 1, clerkUserId |-> pUser]}
            /\ UNCHANGED pToasts
    /\ UNCHANGED <<pMounted, pUser, isPremium, fetches, location, fetched, nextFetch>>
    /\ UNCHANGED <<jobVars, catchVars>>

\* The checkout request c is answered with {url}: the page is redirected.
CheckoutOK(c, url) ==
    /\ location = AppPage
    /\ c \in checkouts
    /\ checkouts' = checkouts \ {c}
    /\ location' = url
    /\ UNCHANGED <<pMounted, pUser, isPremium, fetches, pToasts, clicks, fetched, nextFetch>>
    /\ UNCHANGED <<jobVars, catchVars>>

\* The checkout request c fails.
CheckoutFail(c) ==
    /\ location = AppPage
    /\ c \in checkouts
    /\ checkouts' = checkouts \ {c}
    /\ pToasts' = Append(pToasts, PaymentError)
    /\ UNCHANGED <<pMounted, pUser, isPremium, fetches, location, clicks, fetched, nextFetch>>
    /\ UNCHANGED <<jobVars, catchVars>>

(***************************************************************************)
(* Inputs                                                                  *)
(***************************************************************************)
\* Field texts at and around the limits of jobSchema.
TitleInputs == {EmptyStr, Str(TitleMin - 1, FALSE), Str(TitleMin, FALSE),
                Str(TitleMax, FALSE), Str(TitleMax + 1, FALSE)}
SalaryInputs == {EmptyStr, Str(4, TRUE), Str(4, FALSE)}
CityInputs   == {Undefined, Num(1), Num(2)}
PhoneInputs  == {EmptyStr, Str(PhoneMin - 1, TRUE), Str(PhoneMin, TRUE),
                 Str(PhoneMin, FALSE), Str(PhoneMin - 1, FALSE)}
DescInputs   == {EmptyStr, Str(DescMin - 1, FALSE), Str(DescMin, FALSE),
                 Str(DescMax, FALSE), Str(DescMax + 1, FALSE)}

Drafts == [title : TitleInputs, salary : SalaryInputs, cityId : CityInputs,
           phone : PhoneInputs, description : DescInputs]

ValidDraft == [title |-> Str(TitleMin, FALSE), salary |-> Str(4, TRUE), cityId |-> Num(1),
               phone |-> Str(PhoneMin, TRUE), description |-> Str(DescMin, FALSE)]

\* The drafts typed in the submission flow.
FlowDrafts == {ValidDraft,
               [ValidDraft EXCEPT !.description = Str(DescMin - 1, FALSE)]}

\* Server messages: up to MaxChunks pieces, one after the other.
WaitClause(m, s) == <<"cherez", " ">> \o m \o <<"m", " ">> \o s \o <<"s">>
Chunks ==
    { <<RateLimitMarker>>, <<QuotaMarker>>, <<"x">>,
      WaitClause(<<"5">>, <<"3", "0">>),
      WaitClause(<<"7">>, <<"1">>),
      <<"cherez", " ", "5", "m">>,
      <<"cherez", " ", "5", "m", "3", "0", "s">> }

RECURSIVE MessagesOf(_)
MessagesOf(n) ==
    IF n = 0 THEN {<<>>}
    ELSE LET shorter == MessagesOf(n - 1)
         IN  shorter \cup {m \o c : m \in shorter, c \in Chunks}

Messages == MessagesOf(MaxChunks)

RECURSIVE ListsOf(_)
ListsOf(n) ==
    IF n = 0 THEN {<<>>}
    ELSE LET shorter == ListsOf(n - 1)
         IN  shorter \cup {Append(l, x) : l \in shorter, x \in {Text(<<"x">>), Object}}

\* Everything axios.post may reject with.
Rejections ==
    {NoResponse, EmptyBody}
    \cup {Body(err, errs) :
            err  \in {Undefined, Object} \cup {Text(m) : m \in Messages},
            errs \in {Undefined, Object} \cup {Array(l) : l \in ListsOf(MaxErrors)}}

\* The rejections answered in the submission flow.
FlowRejections ==
    {NoResponse,
     Body(Text(<<RateLimitMarker>> \o WaitClause(<<"5">>, <<"3", "0">>)), Undefined),
     Body(Undefined, Array(<<>>)),
     Body(Undefined, Array(<<Text(<<"x">>), Text(<<"x">>)>>))}

(***************************************************************************)
(* The catch block of onSubmit, applied to one rejection.                  *)
(***************************************************************************)
RunCatch ==
    /\ ~cDone
    /\ cDone' = TRUE
    /\ cToasts' = Catch(cError).toasts
    /\ cThrew' = Catch(cError).threw
    /\ UNCHANGED cError
    /\ UNCHANGED <<jobVars, premiumVars>>

(***************************************************************************)
(* Specifications                                                          *)
(***************************************************************************)
JobIdle ==
    /\ values = defaultValues /\ errors = <<>> /\ user = NoUser
    /\ onJobCreated = FALSE /\ inflight = {} /\ timers = {}
    /\ events = <<>> /\ submits = 0

CatchIdle ==
    /\ cError = NoResponse /\ cToasts = <<>> /\ cThrew = FALSE /\ cDone = FALSE

PremiumIdle ==
    /\ pMounted = FALSE /\ pUser = NoUser /\ isPremium = FALSE
    /\ fetches = {} /\ checkouts = {} /\ location = AppPage
    /\ pToasts = <<>> /\ clicks = 0
    /\ fetched = [u \in Users |-> NeverFetched] /\ nextFetch = 1

\* JobForm after its first render, in front of some user or none.
JobInit ==
    /\ values = defaultValues /\ errors = <<>>
    /\ user \in Users \cup {NoUser}
    /\ onJobCreated \in BOOLEAN
    /\ inflight = {} /\ timers = {} /\ events = <<>> /\ submits = 0

\* The steps of JobForm once the draft is typed.
JobStep ==
    \/ \E u \in Users \cup {NoUser} : SetUser(u)
    \/ Submit
    \/ \E r \in inflight : RespondOK(r)
    \/ \E r \in inflight, e \in FlowRejections : RespondFail(r, e)
    \/ Tick
    \/ \E t \in timers : TimerFire(t)

\* The submission flow of JobForm.
Init == JobInit /\ CatchIdle /\ PremiumIdle

Next ==
    \/ \E d \in FlowDrafts : Fill(d)
    \/ JobStep

Spec == Init /\ [][Next]_vars

\* JobForm holding any draft, submitted as it stands.
InitValidation ==
    /\ values \in Drafts /\ errors = <<>>
    /\ user \in Users \cup {NoUser}
    /\ onJobCreated \in BOOLEAN
    /\ inflight = {} /\ timers = {} /\ events = <<>> /\ submits = 0
    /\ CatchIdle /\ PremiumIdle

NextValidation == JobStep

SpecValidation == InitValidation /\ [][NextValidation]_vars

\* The catch block on every rejection.
InitCatch ==
    /\ cError \in Rejections /\ cToasts = <<>> /\ cThrew = FALSE /\ cDone = FALSE
    /\ JobIdle /\ PremiumIdle

NextCatch == RunCatch

SpecCatch == InitCatch /\ [][NextCatch]_vars

\* PremiumButton.
InitPremium ==
    /\ pMounted = FALSE /\ pUser \in Users \cup {NoUser} /\ isPremium = FALSE
    /\ fetches = {} /\ checkouts = {} /\ location = AppPage
    /\ pToasts = <<>> /\ clicks = 0
    /\ fetched = [u \in Users |-> NeverFetched] /\ nextFetch = 1
    /\ JobIdle /\ CatchIdle

NextPremium ==
    \/ Mount
    \/ \E u \in Users \cup {NoUser} : UserChange(u)
    \/ \E f \in fetches, b \in BOOLEAN : FetchOK(f, b)
    \/ \E f \in fetches : FetchFail(f)
    \/ Checkout
    \/ \E c \in checkouts, url \in CheckoutUrls : CheckoutOK(c, url)
    \/ \E c \in checkouts : CheckoutFail(c)

SpecPremium == InitPremium /\ [][NextPremium]_vars

(***************************************************************************)
(* Claims about the submit event (SpecValidation)                          *)
(***************************************************************************)
\* The fields of draft d that break a constraint of the data model.
Violated(d) ==
    {f \in Fields :
        CASE f = "title"       -> d.title.len < TitleMin \/ d.title.len > TitleMax
          [] f = "salary"      -> ~DigitsOnly(d.salary)
          [] f = "cityId"      -> d.cityId.t # "number"
          [] f = "phone"       -> ~DigitsOnly(d.phone) \/ d.phone.len < PhoneMin
          [] f = "description" -> d.description.len < DescMin \/ d.description.len > DescMax}

\* The events of kind e in the log of submission i.
Count(log, e) == Cardinality({k \in 1..Len(log) : log[k].ev = e})

\* This step is a submit event of the form.
SubmitStep == submits' = submits + 1

\* C1: submitting a draft that violates a field constraint issues no POST
\* /api/jobs request and shows an inline message for every violated field,
\* the description included.
C1_InvalidDraftIsRejectedInline ==
    [][ (SubmitStep /\ Violated(values) # {})
        => /\ inflight' = inflight
           /\ Count(events'[submits'], "post") = 0
           /\ \A f \in Violated(values) : f \in DOMAIN InlineMessages' ]_vars

\* C2: submitting a draft that satisfies every constraint while no user is
\* signed in shows the auth-required notification exactly once and does nothing
\* else: no POST /api/jobs, no form reset, no callback, no navigation.
C2_ValidDraftWithoutUserOnlyNotifies ==
    [][ (SubmitStep /\ Violated(values) = {} /\ user = NoUser)
        => /\ Len(events'[submits']) = 1
           /\ events'[submits'][1].ev = "toast.error"
           /\ events'[submits'][1].arg = AuthRequiredMsg
           /\ \A i \in 1..submits : events'[i] = events[i]
           /\ inflight' = inflight
           /\ values' = values
           /\ timers' = timers ]_vars

\* A valid draft was submitted with no user signed in, and the notification is up.
C2_Witness ==
    \E i \in 1..submits :
        /\ Violated(values) = {} /\ user = NoUser /\ inflight = {}
        /\ Len(events[i]) = 1
        /\ events[i][1].ev = "toast.error"
        /\ events[i][1].arg = AuthRequiredMsg

(***************************************************************************)
(* Claims about the submission flow (Spec)                                 *)
(***************************************************************************)
\* What onSubmit does, in order, once the POST of request r has succeeded.
SuccessSequence(r) ==
    <<Event("toast.success", SuccessMsg), Event("reset", <<>>)>>
    \o (IF onJobCreated THEN <<Event("callback", Created(r))>> ELSE <<>>)
    \o <<Event("setTimeout", NavDelay)>>

\* The log of one submission keeps the order of a success: the notification,
\* the reset, the callback (once, when given), the timer, and only then the
\* navigation.
SuccessInOrder(log) ==
    /\ \A k \in 1..Len(log) :
         log[k].ev = "toast.success"
         => /\ Len(log) >= k + (IF onJobCreated THEN 3 ELSE 2)
            /\ log[k + 1].ev = "reset"
            /\ onJobCreated => log[k + 2].ev = "callback"
            /\ log[k + (IF onJobCreated THEN 3 ELSE 2)].ev = "setTimeout"
    /\ Count(log, "callback") = (IF onJobCreated THEN Count(log, "toast.success") ELSE 0)
    /\ Count(log, "toast.success") <= 1
    /\ \A n \in 1..Len(log) :
         log[n].ev = "navigate"
         => \E k \in 1..(n - 1) :
              /\ log[k].ev = "toast.success"
              /\ k + (IF onJobCreated THEN 3 ELSE 2) < n

Toasts(log) == Count(log, "toast.success") + Count(log, "toast.error")

\* C9: submissions in flight are not guarded: a valid draft submitted by a
\* signed-in user is posted whatever is in flight, so that two requests can be
\* in flight together; each request completes on its own, with its own
\* notification and, on success, its own callback and navigation timer; and a
\* request is issued by a submit event only.
C9_DoubleSubmitCompletesIndependently ==
    [][ /\ (SubmitStep /\ Violated(values) = {} /\ user # NoUser)
           => \E r \in inflight' \ inflight :
                 /\ r.id = submits'
                 /\ inflight' = inflight \cup {r}
        /\ \A r \in inflight \ inflight' :
              /\ Toasts(events'[r.id]) > Toasts(events[r.id])
              /\ \A j \in 1..Len(events) : j # r.id => events'[j] = events[j]
              /\ inflight' = inflight \ {r}
              /\ RespondOK(r)
                 => /\ Count(events'[r.id], "callback") = (IF onJobCreated THEN 1 ELSE 0)
                    /\ timers' = timers \cup {[req |-> r.id, remaining |-> NavDelay]}
        /\ (inflight' \ inflight # {}) => SubmitStep ]_vars

\* Two job-creation requests are in flight at the same time.
TwoInFlight == Cardinality(inflight) >= 2

(***************************************************************************)
(* Claims about the catch block (SpecCatch)                                *)
(***************************************************************************)
\* The rejection carries a response body whose error is a non-empty string.
HasErrorString ==
    /\ cError.response.t # "undefined"
    /\ cError.response.data.t = "object"
    /\ cError.response.data.v.error.t = "string"
    /\ Len(cError.response.data.v.error.v) > 0

ErrorString == cError.response.data.v.error.v

\* s[a..b] is a non-empty string of digits.
IsDigits(s, a, b) == a <= b /\ \A n \in a..b : s[n] \in Digits

\* "cherez <M>m <S>s" stands in s from index i to index k, M ending at index j.
WaitSpan(s, i, j, k) ==
    /\ s[i] = "cherez" /\ s[i + 1] = " "
    /\ IsDigits(s, i + 2, j)
    /\ s[j + 1] = "m" /\ s[j + 2] = " "
    /\ IsDigits(s, j + 3, k - 1)
    /\ s[k] = "s"

\* Some "cherez <M>m <S>s" stands in s from index i.
WaitFrom(s, i) ==
    /\ s[i] = "cherez"
    /\ \E j \in (i + 2)..(Len(s) - 4) : \E k \in (j + 4)..Len(s) : WaitSpan(s, i, j, k)

HasWait(s) == \E i \in 1..Len(s) : WaitFrom(s, i)

IsRateLimit(s) == Includes(s, <<RateLimitMarker>>)

\* C4 as stated: a rate-limit message containing "cherez <M>m <S>s" yields one
\* notification, which contains M and S, for every such M and S; a rate-limit
\* message without the pattern is shown as it is.
C4_EveryWaitTimeIsShown ==
    (cDone /\ HasErrorString /\ IsRateLimit(ErrorString))
    => /\ Len(cToasts) = 1
       /\ \A i \in 1..Len(ErrorString) :
            WaitFrom(ErrorString, i)
            => \A j \in (i + 2)..(Len(ErrorString) - 4) : \A k \in (j + 4)..Len(ErrorString) :
                 WaitSpan(ErrorString, i, j, k)
                 => /\ Includes(cToasts[1], SubSeq(ErrorString, i + 2, j))
                    /\ Includes(cToasts[1], SubSeq(ErrorString, j + 3, k - 1))
       /\ ~HasWait(ErrorString) => cToasts[1] = ErrorString

\* C4 as amended: the one notification contains the M and S of the leftmost
\* "cherez <M>m <S>s" of the rate-limit message (it is the formatted wait
\* message for them); a rate-limit message without the pattern is shown as it is.
C4_FirstWaitTimeIsShown ==
    (cDone /\ HasErrorString /\ IsRateLimit(ErrorString))
    => /\ Len(cToasts) = 1
       /\ ~cThrew
       /\ \A i \in 1..Len(ErrorString) :
            (WaitFrom(ErrorString, i) /\ \A h \in 1..(i - 1) : ~WaitFrom(ErrorString, h))
            => \A j \in (i + 2)..(Len(ErrorString) - 4) : \A k \in (j + 4)..Len(ErrorString) :
                 WaitSpan(ErrorString, i, j, k)
                 => LET m   == SubSeq(ErrorString, i + 2, j)
                        sec == SubSeq(ErrorString, j + 3, k - 1)
                    IN  /\ Includes(cToasts[1], m) /\ Includes(cToasts[1], sec)
                        /\ cToasts[1] = <<"Podozhdite", " ">> \o m \o <<" ", "min", " ">> \o sec
                                        \o <<" ", "sek pered sozdaniem novogo obyavleniya.">>
       /\ ~HasWait(ErrorString) => cToasts[1] = ErrorString

\* A rate-limit message with the wait time 5 minutes 30 seconds was handled.
C4_Witness ==
    /\ cDone /\ HasErrorString /\ IsRateLimit(ErrorString)
    /\ Includes(ErrorString, <<"cherez", " ", "5", "m", " ", "3", "0", "s">>)
    /\ Includes(cToasts[1], <<"5">>) /\ Includes(cToasts[1], <<"3", "0">>)
    /\ cToasts[1] # ErrorString

HasQuota(s) == Includes(s, <<QuotaMarker>>)

\* C5 as stated: an error string containing the quota text yields the fixed
\* quota message and nothing else, whatever else the string contains.
C5_QuotaAlwaysWins ==
    (cDone /\ HasErrorString /\ HasQuota(ErrorString))
    => cToasts = <<QuotaMsg>>

\* C5 as amended: an error string that contains the quota text and not the
\* rate-limit text yields the fixed quota message and nothing else.
C5_QuotaWinsWithoutRateLimit ==
    (cDone /\ HasErrorString /\ HasQuota(ErrorString) /\ ~IsRateLimit(ErrorString))
    => cToasts = <<QuotaMsg>> /\ ~cThrew

\* A quota message that also carries a wait clause was handled.
C5_Witness ==
    /\ cDone /\ HasErrorString
    /\ HasQuota(ErrorString) /\ ~IsRateLimit(ErrorString)
    /\ HasWait(ErrorString)
    /\ cToasts = <<QuotaMsg>>

\* The shapes of failure: no response, or a response whose body has an error
\* string or none, and a list of field errors or none.
KnownShape ==
    \/ cError.response.t = "undefined"
    \/ /\ cError.response.data.t = "object"
       /\ cError.response.data.v.error.t \in {"string", "undefined"}
       /\ cError.response.data.v.errors.t \in {"array", "undefined"}

\* The body carries a list of field errors and no error string.
OnlyErrorList ==
    /\ cError.response.t # "undefined"
    /\ cError.response.data.t = "object"
    /\ cError.response.data.v.error.t = "undefined"
    /\ cError.response.data.v.errors.t = "array"

\* C8: every failure of a known shape is turned into at least one error
\* notification and no exception escapes the handler; a list of n field errors
\* yields exactly n notifications.
C8_EveryFailureIsNotified ==
    (cDone /\ KnownShape)
    => /\ Len(cToasts) >= 1
       /\ ~cThrew
       /\ OnlyErrorList => Len(cToasts) = Len(cError.response.data.v.errors.v)

(***************************************************************************)
(* Claims about PremiumButton (SpecPremium)                                *)
(***************************************************************************)
\* C6: when a status fetch of the current user completes with isPremium = b,
\* the panel shows the purchased label and no purchase action if b, the
\* purchase action and no purchased label if not b; the two are never shown
\* together.
C6_PanelFollowsFetchedFlag ==
    /\ [](~(ShowsPurchased /\ ShowsPurchaseAction))
    /\ [][ \A f \in fetches, b \in BOOLEAN :
             (FetchOK(f, b) /\ f.user = pUser)
             => /\ ShowsPurchased' = b
                /\ ShowsPurchaseAction' = ~b ]_vars

\* The current user's fetch has answered "premium" and the label is shown.
C6_Witness ==
    /\ pUser # NoUser /\ fetches = {}
    /\ fetched[pUser].id > 0 /\ fetched[pUser].val
    /\ ShowsPurchased /\ ~ShowsPurchaseAction

\* This step is an activation of the purchase action.
ClickStep == clicks' = clicks + 1

\* What every activation leaves alone, and what only an answer does.
RedirectOnlyOnAnswer ==
    /\ ClickStep => location' = location
    /\ location' # location
       => \E c \in checkouts, url \in CheckoutUrls :
            /\ CheckoutOK(c, url)
            /\ location' = url
    /\ \A c \in checkouts :
         CheckoutFail(c)
         => /\ pToasts' = Append(pToasts, PaymentError)
            /\ location' = location

\* C7 as stated: every activation issues one checkout-session request with the
\* current user's id; the page is redirected only on that request's success,
\* to the returned URL; a failed activation (request error, or no user) shows
\* the payment-error notification and does not redirect.
C7_EveryActivationIssuesARequest ==
    [][ /\ ClickStep
           => /\ checkouts' = checkouts \cup {[id |-> clicks', clerkUserId |-> pUser]}
              /\ Cardinality(checkouts') = Cardinality(checkouts) + 1
              /\ pUser \in Users
        /\ (ClickStep /\ pUser = NoUser) => pToasts' = Append(pToasts, PaymentError)
        /\ RedirectOnlyOnAnswer ]_vars

\* C7 as amended: an activation while a user is signed in issues one
\* checkout-session request with that user's id and shows nothing; an
\* activation while no user is signed in issues no request and shows the
\* payment-error notification; the page is redirected only on a request's
\* success, to the returned URL; a failed request shows the payment-error
\* notification and does not redirect.
C7_ActivationWithUserIssuesARequest ==
    [][ /\ (ClickStep /\ pUser # NoUser)
           => /\ checkouts' = checkouts \cup {[id |-> clicks', clerkUserId |-> pUser]}
              /\ Cardinality(checkouts') = Cardinality(checkouts) + 1
              /\ pToasts' = pToasts
        /\ (ClickStep /\ pUser = NoUser)
           => /\ checkouts' = checkouts
              /\ pToasts' = Append(pToasts, PaymentError)
        /\ RedirectOnlyOnAnswer ]_vars

\* The button was clicked with no user (a notification, no request) and with a
\* user, whose request then succeeded and redirected the page.
C7_Witness ==
    /\ clicks = 2
    /\ pToasts = <<PaymentError>>
    /\ location \in CheckoutUrls
    /\ checkouts = {}

\* C10: while no status fetch is in flight, the flag on display is the current
\* user's: the value of the latest successful fetch issued for that user, and
\* false with no user or with no successful fetch for that user.
C10_DisplayedFlagIsCurrentUsers ==
    fetches = {}
    => isPremium = (IF pUser = NoUser THEN FALSE ELSE fetched[pUser].val)

====
